---- MODULE Spec2Model ----
(***************************************************************************)
(* Binary codec of src/lib.rs: CompactSize, Txid, OutPoint, Script,        *)
(* TransactionInput and BitcoinTransaction, with their to_bytes and        *)
(* from_bytes, and the hexadecimal textual form of Txid.                   *)
(*                                                                         *)
(* Numbers.  A u64 is a sequence of four 16-bit limbs, least significant   *)
(* first, and a u32 a sequence of two; a usize is a u64 (64-bit target).   *)
(* Byte counts that index a buffer are naturals.  A byte is in 0..255 and  *)
(* a buffer is a sequence of bytes; a string is the sequence of its ASCII  *)
(* codes.                                                                  *)
(***************************************************************************)
EXTENDS Naturals, Sequences, FiniteSets

VARIABLES kind, x, buf, mode, res

vars == <<kind, x, buf, mode, res>>

----------------------------------------------------------------------------
(* Bounds of the exploration *)

\* longest script payload enumerated byte by byte
MaxScriptLen == 2
\* most inputs of a constructed transaction
MaxInputs == 2
\* longest buffer that does not come from an encoding
MaxRaw == 3

----------------------------------------------------------------------------
(* Fixed-width unsigned integers *)

Fill(b, n) == [i \in 1..n |-> b]

\* the u64 of a natural below 2^31
U64(n) == <<n % 65536, n \div 65536, 0, 0>>

\* the u32 of a natural below 2^31
U32(n) == <<n % 65536, n \div 65536>>

\* a < b on limb sequences of one width
LimbsLt(a, b) ==
    \E i \in 1..Len(a) : /\ a[i] < b[i]
                         /\ \A j \in (i + 1)..Len(a) : a[j] = b[j]

LimbsLe(a, b) == a = b \/ LimbsLt(a, b)

\* the natural of a usize known to be below 2^31
ToNat(u) == u[1] + 65536 * u[2]

\* u16::to_le_bytes
u16_to_le_bytes(l) == <<l % 256, l \div 256>>

\* u32::to_le_bytes and u64::to_le_bytes
to_le_bytes(v) ==
    IF Len(v) = 2
    THEN u16_to_le_bytes(v[1]) \o u16_to_le_bytes(v[2])
    ELSE u16_to_le_bytes(v[1]) \o u16_to_le_bytes(v[2])
         \o u16_to_le_bytes(v[3]) \o u16_to_le_bytes(v[4])

\* u16::from_le_bytes
u16_from_le_bytes(b) == b[1] + 256 * b[2]

\* from_le_bytes reading the most significant byte first
u32_from_be_bytes(b) ==
    <<b[4] + 256 * b[3], b[2] + 256 * b[1]>>

\* u32::from_le_bytes
u32_from_le_bytes(b) ==
    <<u16_from_le_bytes(SubSeq(b, 1, 2)), u16_from_le_bytes(SubSeq(b, 3, 4))>>

\* u64::from_le_bytes
u64_from_le_bytes(b) ==
    <<u16_from_le_bytes(SubSeq(b, 1, 2)), u16_from_le_bytes(SubSeq(b, 3, 4)),
      u16_from_le_bytes(SubSeq(b, 5, 6)), u16_from_le_bytes(SubSeq(b, 7, 8))>>

\* a + b on usize: the wrapped sum and whether it overflowed
usize_add(a, b) ==
    LET s1 == a[1] + b[1]
        s2 == a[2] + b[2] + (s1 \div 65536)
        s3 == a[3] + b[3] + (s2 \div 65536)
        s4 == a[4] + b[4] + (s3 \div 65536)
    IN  [value    |-> <<s1 % 65536, s2 % 65536, s3 % 65536, s4 % 65536>>,
         overflow |-> s4 \div 65536 > 0]

----------------------------------------------------------------------------
(* Results *)

Ok(v, n) == [tag |-> "Ok", value |-> v, consumed |-> n]

Err(e) == [tag |-> "Err", err |-> e]

\* the thread panics: no value is returned
Panic(m) == [tag |-> "Panic", msg |-> m]

NotRun == [tag |-> "NotRun"]

InsufficientBytes == Err("InsufficientBytes")

InvalidFormat == Err("InvalidFormat")

----------------------------------------------------------------------------
(* CompactSize *)

CompactSize_new(value) == [value |-> value]

\* to_bytes with the second range ending below 0xFFFF (n < 0xFFFF)
CompactSize_to_bytes_short_range(self) ==
    LET n == self.value
    IN  IF LimbsLe(n, U64(252))
        THEN <<n[1] % 256>>
        ELSE IF LimbsLt(n, U64(65535))
        THEN <<253>> \o u16_to_le_bytes(n[1])
        ELSE IF LimbsLe(n, <<65535, 65535, 0, 0>>)
        THEN <<254>> \o to_le_bytes(<<n[1], n[2]>>)
        ELSE <<255>> \o to_le_bytes(n)

\* to_bytes with the first range reaching 0xFD (n <= 0xFD)
CompactSize_to_bytes_wide_first(self) ==
    LET n == self.value
    IN  IF LimbsLe(n, U64(253))
        THEN <<n[1] % 256>>
        ELSE IF LimbsLe(n, U64(65535))
        THEN <<253>> \o u16_to_le_bytes(n[1])
        ELSE IF LimbsLe(n, <<65535, 65535, 0, 0>>)
        THEN <<254>> \o to_le_bytes(<<n[1], n[2]>>)
        ELSE <<255>> \o to_le_bytes(n)

CompactSize_to_bytes(self) ==
    LET n == self.value
    IN  IF LimbsLe(n, U64(252))
        THEN <<n[1] % 256>>
        ELSE IF LimbsLe(n, U64(65535))
        THEN <<253>> \o u16_to_le_bytes(n[1])
        ELSE IF LimbsLe(n, <<65535, 65535, 0, 0>>)
        THEN <<254>> \o to_le_bytes(<<n[1], n[2]>>)
        ELSE <<255>> \o to_le_bytes(n)

\* from_bytes without the canonical check of the 0xFF form
CompactSize_from_bytes_unchecked(bytes) ==
    IF Len(bytes) = 0
    THEN InsufficientBytes
    ELSE IF bytes[1] <= 252
    THEN Ok(CompactSize_new(U64(bytes[1])), 1)
    ELSE IF bytes[1] = 253
    THEN IF Len(bytes) < 3
         THEN InsufficientBytes
         ELSE LET v == U64(u16_from_le_bytes(SubSeq(bytes, 2, 3)))
              IN  IF LimbsLt(v, U64(253))
                  THEN InvalidFormat
                  ELSE Ok(CompactSize_new(v), 3)
    ELSE IF bytes[1] = 254
    THEN IF Len(bytes) < 5
         THEN InsufficientBytes
         ELSE LET w == u32_from_le_bytes(SubSeq(bytes, 2, 5))
                  v == <<w[1], w[2], 0, 0>>
              IN  IF LimbsLt(v, <<0, 1, 0, 0>>)
                  THEN InvalidFormat
                  ELSE Ok(CompactSize_new(v), 5)
    ELSE IF Len(bytes) < 9
         THEN InsufficientBytes
         ELSE Ok(CompactSize_new(u64_from_le_bytes(SubSeq(bytes, 2, 9))), 9)

CompactSize_from_bytes(bytes) ==
    IF Len(bytes) = 0
    THEN InsufficientBytes
    ELSE IF bytes[1] <= 252
    THEN Ok(CompactSize_new(U64(bytes[1])), 1)
    ELSE IF bytes[1] = 253
    THEN IF Len(bytes) < 3
         THEN InsufficientBytes
         ELSE LET v == U64(u16_from_le_bytes(SubSeq(bytes, 2, 3)))
              IN  IF LimbsLt(v, U64(253))
                  THEN InvalidFormat
                  ELSE Ok(CompactSize_new(v), 3)
    ELSE IF bytes[1] = 254
    THEN IF Len(bytes) < 5
         THEN InsufficientBytes
         ELSE LET w == u32_from_le_bytes(SubSeq(bytes, 2, 5))
                  v == <<w[1], w[2], 0, 0>>
              IN  IF LimbsLt(v, <<0, 1, 0, 0>>)
                  THEN InvalidFormat
                  ELSE Ok(CompactSize_new(v), 5)
    ELSE IF Len(bytes) < 9
         THEN InsufficientBytes
         ELSE LET v == u64_from_le_bytes(SubSeq(bytes, 2, 9))
              IN  IF LimbsLt(v, <<0, 0, 1, 0>>)
                  THEN InvalidFormat
                  ELSE Ok(CompactSize_new(v), 9)

----------------------------------------------------------------------------
(* Txid and its textual form *)

\* "0123456789abcdef"
HEX_CHARS_LOWER == <<48, 49, 50, 51, 52, 53, 54, 55, 56, 57,
                     97, 98, 99, 100, 101, 102>>

\* hex::encode: two lowercase digits per byte, high nibble first
hex_encode(data) ==
    [i \in 1..(2 * Len(data)) |->
        LET b == data[(i + 1) \div 2]
        IN  IF i % 2 = 1 THEN HEX_CHARS_LOWER[(b \div 16) + 1]
                         ELSE HEX_CHARS_LOWER[(b % 16) + 1]]

\* hex::decode's digit value: 0-9, a-f and A-F; 16 for any other character
hex_val(c) ==
    IF c >= 48 /\ c <= 57 THEN c - 48
    ELSE IF c >= 97 /\ c <= 102 THEN c - 97 + 10
    ELSE IF c >= 65 /\ c <= 70 THEN c - 65 + 10
    ELSE 16

\* hex::decode
hex_decode(s) ==
    IF Len(s) % 2 # 0
    THEN Err("OddLength")
    ELSE IF \E i \in 1..Len(s) : hex_val(s[i]) = 16
    THEN Err("InvalidHexCharacter")
    ELSE Ok([i \in 1..(Len(s) \div 2) |->
                16 * hex_val(s[2 * i - 1]) + hex_val(s[2 * i])], Len(s))

\* impl Serialize for Txid
Txid_serialize(self) == hex_encode(self)

\* the length check accepting any number of bytes
Txid_from_decoded_any_length(s, r) ==
    IF r.tag # "Ok" THEN r ELSE Ok(r.value, Len(s))

\* deserialize after hex::decode(&s), r being its result
Txid_from_decoded(s, r) ==
    IF r.tag # "Ok"
    THEN r
    ELSE IF Len(r.value) # 32
    THEN Err("Txid must be 32 bytes")
    ELSE Ok(r.value, Len(s))

\* impl Deserialize for Txid
Txid_deserialize(s) == Txid_from_decoded(s, hex_decode(s))

----------------------------------------------------------------------------
(* OutPoint *)

OutPoint_new(txid, vout) == [txid |-> txid, vout |-> vout]

OutPoint_to_bytes(self) == self.txid \o to_le_bytes(self.vout)

\* from_bytes reporting the whole buffer as consumed
OutPoint_from_bytes_all(bytes) ==
    IF Len(bytes) < 36
    THEN InsufficientBytes
    ELSE Ok(OutPoint_new(SubSeq(bytes, 1, 32),
                         u32_from_le_bytes(SubSeq(bytes, 33, 36))), Len(bytes))

OutPoint_from_bytes(bytes) ==
    IF Len(bytes) < 36
    THEN InsufficientBytes
    ELSE Ok(OutPoint_new(SubSeq(bytes, 1, 32),
                         u32_from_le_bytes(SubSeq(bytes, 33, 36))), 36)

----------------------------------------------------------------------------
(* Script *)

Script_new(bytes) == [bytes |-> bytes]

Script_to_bytes(self) ==
    CompactSize_to_bytes(CompactSize_new(U64(Len(self.bytes)))) \o self.bytes

\* the slicing step taking the bytes that are there when the payload is cut
\* short
Script_slice_partial(bytes, consumed, sum, oc) ==
    IF sum.overflow /\ oc
    THEN Panic("attempt to add with overflow")
    ELSE IF LimbsLt(U64(Len(bytes)), sum.value)
    THEN Ok(Script_new(SubSeq(bytes, consumed + 1, Len(bytes))), Len(bytes))
    ELSE IF LimbsLt(sum.value, U64(consumed))
    THEN Panic("slice index starts after its end")
    ELSE Ok(Script_new(SubSeq(bytes, consumed + 1, ToNat(sum.value))),
            ToNat(sum.value))

\* from_bytes after total = consumed + (len.value as usize), sum being the
\* wrapped total and whether the addition overflowed: the length check and
\* the slice bytes[consumed..total].
\* oc: the build's overflow-checks setting (on in debug, off in release)
Script_slice(bytes, consumed, sum, oc) ==
    IF sum.overflow /\ oc
    THEN Panic("attempt to add with overflow")
    ELSE IF LimbsLt(U64(Len(bytes)), sum.value)
    THEN InsufficientBytes
    ELSE IF LimbsLt(sum.value, U64(consumed))
    THEN Panic("slice index starts after its end")
    ELSE Ok(Script_new(SubSeq(bytes, consumed + 1, ToNat(sum.value))),
            ToNat(sum.value))

\* from_bytes after the length prefix, r being CompactSize::from_bytes(bytes)
Script_after_len(bytes, r, oc) ==
    IF r.tag # "Ok"
    THEN r
    ELSE Script_slice(bytes, r.consumed,
                      usize_add(U64(r.consumed), r.value.value), oc)

Script_from_bytes(bytes, oc) ==
    Script_after_len(bytes, CompactSize_from_bytes(bytes), oc)

----------------------------------------------------------------------------
(* TransactionInput *)

TransactionInput_new(previous_output, script_sig, sequence) ==
    [previous_output |-> previous_output,
     script_sig      |-> script_sig,
     sequence        |-> sequence]

TransactionInput_to_bytes(self) ==
    OutPoint_to_bytes(self.previous_output)
    \o Script_to_bytes(self.script_sig)
    \o to_le_bytes(self.sequence)

\* from_bytes from offset = consumed1 + consumed2 on: the sequence number
TransactionInput_sequence(bytes, outpoint, script, offset) ==
    IF Len(bytes) < offset + 4
    THEN InsufficientBytes
    ELSE Ok(TransactionInput_new(
                outpoint, script,
                u32_from_le_bytes(SubSeq(bytes, offset + 1, offset + 4))),
            offset + 4)

\* the script step mapping every script error to InsufficientBytes
TransactionInput_after_script_reclassify(bytes, r1, r2) ==
    IF r2.tag = "Err"
    THEN InsufficientBytes
    ELSE IF r2.tag # "Ok"
    THEN r2
    ELSE TransactionInput_sequence(bytes, r1.value, r2.value,
                                   r1.consumed + r2.consumed)

\* from_bytes after the script, r2 being Script::from_bytes(&bytes[consumed1..])
TransactionInput_after_script(bytes, r1, r2) ==
    IF r2.tag # "Ok"
    THEN r2
    ELSE TransactionInput_sequence(bytes, r1.value, r2.value,
                                   r1.consumed + r2.consumed)

\* from_bytes after the outpoint, r1 being OutPoint::from_bytes(bytes)
TransactionInput_after_outpoint(bytes, r1, oc) ==
    IF r1.tag # "Ok"
    THEN r1
    ELSE TransactionInput_after_script(
             bytes, r1,
             Script_from_bytes(SubSeq(bytes, r1.consumed + 1, Len(bytes)), oc))

TransactionInput_from_bytes(bytes, oc) ==
    TransactionInput_after_outpoint(bytes, OutPoint_from_bytes(bytes), oc)

----------------------------------------------------------------------------
(* BitcoinTransaction *)

BitcoinTransaction_new(version, inputs, lock_time) ==
    [version |-> version, inputs |-> inputs, lock_time |-> lock_time]

RECURSIVE ConcatInputs(_)
\* the loop of to_bytes over self.inputs
ConcatInputs(inputs) ==
    IF inputs = <<>>
    THEN <<>>
    ELSE TransactionInput_to_bytes(Head(inputs)) \o ConcatInputs(Tail(inputs))

BitcoinTransaction_to_bytes(self) ==
    to_le_bytes(self.version)
    \o CompactSize_to_bytes(CompactSize_new(U64(Len(self.inputs))))
    \o ConcatInputs(self.inputs)
    \o to_le_bytes(self.lock_time)

\* Vec::<TransactionInput>::with_capacity(n): the request is n * 64 bytes
\* (size_of::<TransactionInput>() = 64) and panics above isize::MAX bytes,
\* that is from n = 2^57 on; a smaller request is taken to be granted
with_capacity_panics(n) == n[4] >= 512

RECURSIVE DecodeInputs(_, _, _, _, _)
RECURSIVE DecodeInput(_, _, _, _, _, _)
\* the loop of from_bytes: input_count iterations from offset
DecodeInputs(bytes, offset, inputs, input_count, oc) ==
    IF U64(Len(inputs)) = input_count
    THEN Ok(inputs, offset)
    ELSE DecodeInput(bytes, offset, inputs, input_count, oc,
                     TransactionInput_from_bytes(SubSeq(bytes, offset + 1, Len(bytes)), oc))

\* the body of the loop, r being TransactionInput::from_bytes(&bytes[offset..]):
\* a failure is returned at once
DecodeInput(bytes, offset, inputs, input_count, oc, r) ==
    IF r.tag # "Ok"
    THEN r
    ELSE DecodeInputs(bytes, offset + r.consumed, Append(inputs, r.value),
                      input_count, oc)

\* from_bytes after the loop: the lock time
BitcoinTransaction_lock_time(bytes, version, inputs, offset) ==
    IF Len(bytes) < offset + 4
    THEN InsufficientBytes
    ELSE Ok(BitcoinTransaction_new(
                version, inputs,
                u32_from_le_bytes(SubSeq(bytes, offset + 1, offset + 4))),
            offset + 4)

\* from_bytes after the loop, rl being its result
BitcoinTransaction_after_inputs(bytes, version, rl) ==
    IF rl.tag # "Ok"
    THEN rl
    ELSE BitcoinTransaction_lock_time(bytes, version, rl.value, rl.consumed)

\* from_bytes after the input count, rc being CompactSize::from_bytes(&bytes[4..])
BitcoinTransaction_after_count(bytes, version, rc, oc) ==
    IF rc.tag # "Ok"
    THEN rc
    ELSE IF with_capacity_panics(rc.value.value)
    THEN Panic("capacity overflow")
    ELSE BitcoinTransaction_after_inputs(
             bytes, version,
             DecodeInputs(bytes, 4 + rc.consumed, <<>>, rc.value.value, oc))

BitcoinTransaction_from_bytes(bytes, oc) ==
    IF Len(bytes) < 4
    THEN InsufficientBytes
    ELSE BitcoinTransaction_after_count(
             bytes, u32_from_le_bytes(SubSeq(bytes, 1, 4)),
             CompactSize_from_bytes(SubSeq(bytes, 5, Len(bytes))), oc)

----------------------------------------------------------------------------
(* The entity types and their two directions *)

Kinds == {"CompactSize", "OutPoint", "Script", "TransactionInput", "BitcoinTransaction"}

Composites == {"TransactionInput", "BitcoinTransaction"}

\* T::to_bytes
to_bytes(T, v) ==
    CASE T = "CompactSize"        -> CompactSize_to_bytes(v)
      [] T = "OutPoint"           -> OutPoint_to_bytes(v)
      [] T = "Script"             -> Script_to_bytes(v)
      [] T = "TransactionInput"   -> TransactionInput_to_bytes(v)
      [] T = "BitcoinTransaction" -> BitcoinTransaction_to_bytes(v)

\* T::from_bytes
from_bytes(T, bytes, oc) ==
    CASE T = "CompactSize"        -> CompactSize_from_bytes(bytes)
      [] T = "OutPoint"           -> OutPoint_from_bytes(bytes)
      [] T = "Script"             -> Script_from_bytes(bytes, oc)
      [] T = "TransactionInput"   -> TransactionInput_from_bytes(bytes, oc)
      [] T = "BitcoinTransaction" -> BitcoinTransaction_from_bytes(bytes, oc)

----------------------------------------------------------------------------
(* Constructed values and raw buffers *)

\* sequences over S of length at most n
SeqsUpTo(S, n) == UNION {[1..k -> S] : k \in 0..n}

U64Values ==
    {U64(0), U64(1), U64(252), U64(253), U64(254), U64(255), U64(256), U64(65535),
     <<0, 1, 0, 0>>, <<1, 1, 0, 0>>, <<65535, 65535, 0, 0>>,
     <<0, 0, 1, 0>>, <<0, 0, 0, 32768>>, <<65535, 65535, 65535, 65535>>}

U32Values == {U32(1), <<65535, 65535>>}

TxidValues == {Fill(255, 32), [i \in 1..32 |-> i - 1]}

OutPointValues ==
    {OutPoint_new(Fill(255, 32), <<65535, 65535>>),
     OutPoint_new([i \in 1..32 |-> i - 1], U32(1))}

ScriptBytes == {0, 255}

ScriptValues ==
    {Script_new(b) : b \in SeqsUpTo(ScriptBytes, MaxScriptLen)
                          \cup {Fill(255, 8), Fill(0, 253)}}

TransactionInputValues ==
    {TransactionInput_new(o, s, q) :
        o \in OutPointValues, s \in ScriptValues, q \in U32Values}

\* the inputs transactions are built from
TxInputValues ==
    {TransactionInput_new(OutPoint_new(Fill(255, 32), <<65535, 65535>>),
                          Script_new(<<>>), <<65535, 65535>>),
     TransactionInput_new(OutPoint_new([i \in 1..32 |-> i - 1], U32(1)),
                          Script_new(<<0, 0>>), U32(1)),
     TransactionInput_new(OutPoint_new(Fill(255, 32), <<65535, 65535>>),
                          Script_new(Fill(255, 8)), <<65535, 65535>>)}

BitcoinTransactionValues ==
    {BitcoinTransaction_new(U32(1), ins, lt) :
        ins \in SeqsUpTo(TxInputValues, MaxInputs), lt \in {U32(0), <<65535, 65535>>}}

ValuesOf(T) ==
    CASE T = "CompactSize"        -> {CompactSize_new(n) : n \in U64Values}
      [] T = "OutPoint"           -> OutPointValues
      [] T = "Script"             -> ScriptValues
      [] T = "TransactionInput"   -> TransactionInputValues
      [] T = "BitcoinTransaction" -> BitcoinTransactionValues
      [] T = "Txid"               -> TxidValues

\* no constructed value: the buffer is raw input
NoValue == [none |-> TRUE]

\* bytes written into or after a buffer
FuzzBytes == {0, 253, 254, 255}

\* "0", "A", "f", "g"
FuzzChars == {48, 65, 102, 103}

RawBytes == {0, 1, 252, 253, 254, 255}

----------------------------------------------------------------------------
(* The state machine: a value is constructed and encoded, or a raw buffer *)
(* is given; the buffer is cut, or one byte of it is changed or added;    *)
(* and it is decoded.                                                     *)

Init ==
    /\ res = NotRun
    /\ \/ /\ kind \in Kinds \cup {"Txid"}
          /\ x \in ValuesOf(kind)
          /\ buf = <<>>
          /\ mode = "new"
       \/ /\ kind \in Kinds
          /\ x = NoValue
          /\ buf \in SeqsUpTo(RawBytes, MaxRaw)
          /\ mode = "raw"

\* x.to_bytes()
Encode ==
    /\ mode = "new"
    /\ kind \in Kinds
    /\ buf' = to_bytes(kind, x)
    /\ mode' = "exact"
    /\ UNCHANGED <<kind, x, res>>

\* serde serialization of a Txid to its string
Serialize ==
    /\ mode = "new"
    /\ kind = "Txid"
    /\ buf' = Txid_serialize(x)
    /\ mode' = "exact"
    /\ UNCHANGED <<kind, x, res>>

\* the caller drops the last byte
Truncate ==
    /\ mode \in {"exact", "prefix"}
    /\ res = NotRun
    /\ Len(buf) > 0
    /\ buf' = SubSeq(buf, 1, Len(buf) - 1)
    /\ mode' = "prefix"
    /\ UNCHANGED <<kind, x, res>>

\* the caller overwrites one byte
Corrupt ==
    /\ mode = "exact"
    /\ res = NotRun
    /\ \E i \in 1..Len(buf) :
       \E b \in (IF kind = "Txid" THEN FuzzChars ELSE FuzzBytes) :
          /\ b # buf[i]
          /\ buf' = [buf EXCEPT ![i] = b]
    /\ mode' = "fuzzed"
    /\ UNCHANGED <<kind, x, res>>

\* the caller appends one byte
Extend ==
    /\ mode = "exact"
    /\ res = NotRun
    /\ \E b \in (IF kind = "Txid" THEN FuzzChars ELSE FuzzBytes) :
          buf' = Append(buf, b)
    /\ mode' = "fuzzed"
    /\ UNCHANGED <<kind, x, res>>

\* T::from_bytes(&buf), in a debug or a release build
Decode ==
    /\ mode # "new"
    /\ kind \in Kinds
    /\ res = NotRun
    /\ \E oc \in BOOLEAN : res' = from_bytes(kind, buf, oc)
    /\ UNCHANGED <<kind, x, buf, mode>>

\* serde deserialization of a Txid from the string
Deserialize ==
    /\ mode # "new"
    /\ kind = "Txid"
    /\ res = NotRun
    /\ res' = Txid_deserialize(buf)
    /\ UNCHANGED <<kind, x, buf, mode>>

Next ==
    \/ Encode
    \/ Serialize
    \/ Truncate
    \/ Corrupt
    \/ Extend
    \/ Decode
    \/ Deserialize

Spec == Init /\ [][Next]_vars

----------------------------------------------------------------------------
(* Helpers of the properties *)

\* a from_bytes call has been made on buf (in either build)
Decoded == kind \in Kinds /\ res.tag # "NotRun"

\* a is a strict prefix of b
StrictPrefix(a, b) == Len(a) < Len(b) /\ a = SubSeq(b, 1, Len(a))

\* the value a CompactSize prefix at offset off declares is below its
\* marker's range although its whole payload is present
NonCanonicalAt(b, off) ==
    /\ Len(b) > off
    /\ \/ /\ b[off + 1] = 253
          /\ Len(b) >= off + 3
          /\ b[off + 3] = 0 /\ b[off + 2] < 253
       \/ /\ b[off + 1] = 254
          /\ Len(b) >= off + 5
          /\ b[off + 4] = 0 /\ b[off + 5] = 0
       \/ /\ b[off + 1] = 255
          /\ Len(b) >= off + 9
          /\ \A i \in 6..9 : b[off + i] = 0

\* the payload width a marker byte announces
PayloadWidth(m) == IF m <= 252 THEN 0 ELSE IF m = 253 THEN 2 ELSE IF m = 254 THEN 4 ELSE 8

\* the limbs of the little-endian payload of width w that follows b[1]
PayloadValue(b, w) ==
    [i \in 1..4 |-> IF 2 * i <= w THEN b[2 * i] + 256 * b[2 * i + 1] ELSE 0]

----------------------------------------------------------------------------
(* C1 *)

\* C1: decoding the encoding of a constructed value of any of the five
\* entity types returns that value and the length of the encoding.
RoundTrip ==
    (Decoded /\ mode = "exact") => res = Ok(x, Len(buf))

\* a transaction of two inputs has been encoded and decoded
RoundTripWitness ==
    /\ Decoded /\ mode = "exact"
    /\ kind = "BitcoinTransaction"
    /\ Len(x.inputs) = 2
    /\ res.tag = "Ok"
    /\ Len(buf) > 90

----------------------------------------------------------------------------
(* C2 *)

\* C2: every decode returns Ok, Err(InsufficientBytes) or
\* Err(InvalidFormat) and never panics, whatever the input bytes.
DecodeTotal ==
    Decoded => \/ res.tag = "Ok"
               \/ res = InsufficientBytes
               \/ res = InvalidFormat

----------------------------------------------------------------------------
(* C3 *)

\* C3: with the whole payload present, CompactSize::from_bytes fails with
\* InvalidFormat exactly on a 0xFD payload below 0xFD, a 0xFE payload below
\* 0x10000 and a 0xFF payload below 0x100000000, and otherwise returns the
\* payload value (the marker itself up to 0xFC) and the width read.
CanonicalEnforced ==
    (Decoded /\ kind = "CompactSize" /\ Len(buf) > 0
        /\ Len(buf) >= 1 + PayloadWidth(buf[1]))
    => IF NonCanonicalAt(buf, 0)
       THEN res = InvalidFormat
       ELSE LET w == PayloadWidth(buf[1])
            IN  res = Ok([value |-> IF w = 0 THEN <<buf[1], 0, 0, 0>>
                                             ELSE PayloadValue(buf, w)],
                         1 + w)

\* a 0xFF-prefixed value below 0x100000000 has been rejected
CanonicalWitness ==
    /\ Decoded /\ kind = "CompactSize"
    /\ Len(buf) = 9 /\ buf[1] = 255
    /\ res = InvalidFormat

----------------------------------------------------------------------------
(* C4 *)

\* C4: CompactSize::to_bytes picks the marker by value range: one byte up
\* to 0xFC, 0xFD and 2 little-endian bytes up to 0xFFFF, 0xFE and 4 up to
\* 0xFFFFFFFF, 0xFF and 8 above; the boundary values give the widths
\* 1, 3, 3, 5, 5, 9.
EncodeByRange ==
    (kind = "CompactSize" /\ mode = "exact")
    => LET n  == x.value
           le == [i \in 1..8 |-> IF i % 2 = 1 THEN n[(i + 1) \div 2] % 256
                                              ELSE n[i \div 2] \div 256]
       IN  /\ (n[4] > 0 \/ n[3] > 0) => buf = <<255>> \o le
           /\ (n[4] = 0 /\ n[3] = 0 /\ n[2] > 0) => buf = <<254>> \o SubSeq(le, 1, 4)
           /\ (n[4] = 0 /\ n[3] = 0 /\ n[2] = 0 /\ n[1] >= 253)
                  => buf = <<253>> \o SubSeq(le, 1, 2)
           /\ (n[4] = 0 /\ n[3] = 0 /\ n[2] = 0 /\ n[1] <= 252) => buf = <<n[1]>>
           /\ n = <<0, 0, 0, 0>> => buf = <<0>>
           /\ n = <<252, 0, 0, 0>> => Len(buf) = 1
           /\ n = <<253, 0, 0, 0>> => Len(buf) = 3
           /\ n = <<65535, 0, 0, 0>> => buf = <<253, 255, 255>>
           /\ n = <<0, 1, 0, 0>> => buf = <<254, 0, 0, 1, 0>>
           /\ n = <<65535, 65535, 0, 0>> => Len(buf) = 5
           /\ n = <<0, 0, 1, 0>> => Len(buf) = 9

\* 0x100000000 has been encoded on nine bytes
EncodeByRangeWitness ==
    /\ kind = "CompactSize" /\ mode = "exact"
    /\ x.value = <<0, 0, 1, 0>>
    /\ Len(buf) = 9

----------------------------------------------------------------------------
(* C5 *)

\* C5: decoding a strict prefix of the encoding of a value, the empty one
\* included, returns Err(InsufficientBytes).
TruncationFails ==
    (Decoded /\ x # NoValue /\ StrictPrefix(buf, to_bytes(kind, x)))
    => res = InsufficientBytes

\* a transaction cut inside its second input has been decoded
TruncationWitness ==
    /\ Decoded /\ mode = "prefix"
    /\ kind = "BitcoinTransaction"
    /\ Len(x.inputs) = 2
    /\ Len(buf) > 50
    /\ StrictPrefix(buf, to_bytes(kind, x))
    /\ res = InsufficientBytes

----------------------------------------------------------------------------
(* C6 *)

\* C6: a buffer that starts with a canonical CompactSize declaring L, for
\* any L up to 2^64-1, followed by fewer than L bytes makes
\* Script::from_bytes return Err(InsufficientBytes).
ScriptLengthMismatch ==
    (Decoded /\ kind = "Script")
    => LET p == CompactSize_from_bytes(buf)
       IN  (p.tag = "Ok" /\ LimbsLt(U64(Len(buf) - p.consumed), p.value.value))
           => res = InsufficientBytes

----------------------------------------------------------------------------
(* C7 *)

\* C7: when a decode returns Ok((v, n)), v.to_bytes() is the first n bytes
\* of the input.
DecodeThenEncode ==
    (Decoded /\ res.tag = "Ok")
    => /\ res.consumed <= Len(buf)
       /\ to_bytes(kind, res.value) = SubSeq(buf, 1, res.consumed)

\* an edited transaction has decoded to another value than the one encoded,
\* leaving bytes unread
DecodeThenEncodeWitness ==
    /\ Decoded /\ mode = "fuzzed"
    /\ kind = "BitcoinTransaction"
    /\ res.tag = "Ok"
    /\ res.value # x
    /\ res.consumed < Len(buf)

----------------------------------------------------------------------------
(* C8 *)

\* the error a TransactionInput decode of b returns when a step fails: that
\* of the outpoint, else that of the script after it, else that of the
\* four-byte sequence check
InputStepResult(b, oc) ==
    LET r1 == OutPoint_from_bytes(b)
    IN  IF r1.tag # "Ok"
        THEN r1
        ELSE LET r2 == Script_from_bytes(SubSeq(b, 37, Len(b)), oc)
             IN  IF r2.tag # "Ok" THEN r2 ELSE InsufficientBytes

RECURSIVE InputsStepResult(_, _, _, _, _)
\* the result of the first of the input decodes k+1..count from offset that
\* is not Ok, or Ok with the offset after the last one
InputsStepResult(b, offset, k, count, oc) ==
    IF U64(k) = count
    THEN Ok(k, offset)
    ELSE LET r == TransactionInput_from_bytes(SubSeq(b, offset + 1, Len(b)), oc)
         IN  IF r.tag # "Ok"
             THEN r
             ELSE InputsStepResult(b, offset + r.consumed, k + 1, count, oc)

\* the error a BitcoinTransaction decode of b returns when a step fails
TransactionStepResult(b, oc) ==
    IF Len(b) < 4
    THEN InsufficientBytes
    ELSE LET rc == CompactSize_from_bytes(SubSeq(b, 5, Len(b)))
         IN  IF rc.tag # "Ok"
             THEN rc
             ELSE LET ri == InputsStepResult(b, 4 + rc.consumed, 0, rc.value.value, oc)
                  IN  IF ri.tag # "Ok" THEN ri ELSE InsufficientBytes

\* the wire layout read field by field, without the decoders: whether the
\* CompactSize at off is whole, and the length it declares
PrefixComplete(b, off) ==
    Len(b) > off /\ Len(b) >= off + 1 + PayloadWidth(b[off + 1])

DeclaredAt(b, off) ==
    LET w == PayloadWidth(b[off + 1])
    IN  IF w = 0 THEN <<b[off + 1], 0, 0, 0>>
                 ELSE PayloadValue(SubSeq(b, off + 1, off + 1 + w), w)

\* the first field of the input at offset o that is wrong, and where the
\* next input starts when none is
InputVerdict(b, o) ==
    IF Len(b) < o + 36
    THEN [v |-> "short", next |-> o]
    ELSE IF NonCanonicalAt(b, o + 36)
    THEN [v |-> "noncanonical", next |-> o]
    ELSE IF ~PrefixComplete(b, o + 36)
    THEN [v |-> "short", next |-> o]
    ELSE LET start == o + 36 + 1 + PayloadWidth(b[o + 37])
             L     == DeclaredAt(b, o + 36)
         IN  IF LimbsLt(U64(Len(b) - start), L)
             THEN [v |-> "short", next |-> o]
             ELSE IF Len(b) < start + ToNat(L) + 4
             THEN [v |-> "short", next |-> o]
             ELSE [v |-> "ok", next |-> start + ToNat(L) + 4]

RECURSIVE InputsVerdict(_, _, _, _)
InputsVerdict(b, o, k, count) ==
    IF U64(k) = count
    THEN "ok"
    ELSE LET iv == InputVerdict(b, o)
         IN  IF iv.v # "ok" THEN iv.v ELSE InputsVerdict(b, iv.next, k + 1, count)

\* the first wrong field of the composite is a CompactSize (input count or
\* script length) that is whole and not canonical
FirstFailureNonCanonical(T, b) ==
    IF T = "TransactionInput"
    THEN InputVerdict(b, 0).v = "noncanonical"
    ELSE /\ Len(b) >= 4
         /\ \/ NonCanonicalAt(b, 4)
            \/ /\ PrefixComplete(b, 4)
               /\ InputsVerdict(b, 4 + 1 + PayloadWidth(b[5]), 0, DeclaredAt(b, 4))
                    = "noncanonical"

----------------------------------------------------------------------------
(* C9 *)

LowerHex == {48, 49, 50, 51, 52, 53, 54, 55, 56, 57, 97, 98, 99, 100, 101, 102}

HexDigits == LowerHex \cup {65, 66, 67, 68, 69, 70}

\* C9: a Txid serializes to 64 lowercase hexadecimal characters that
\* deserialize to the same 32 bytes; a string of 63 or 65 characters, a
\* hexadecimal string of any length other than 64, and a string with a
\* character that is no hexadecimal digit are all refused.
TxidText ==
    kind = "Txid"
    => /\ mode = "exact"
          => /\ Len(buf) = 64
             /\ \A i \in 1..Len(buf) : buf[i] \in LowerHex
             /\ res.tag # "NotRun" => res.tag = "Ok" /\ res.value = x
       /\ (res.tag # "NotRun"
            /\ \/ Len(buf) \in {63, 65}
               \/ Len(buf) # 64
               \/ \E i \in 1..Len(buf) : buf[i] \notin HexDigits)
          => res.tag = "Err"

\* a string of 65 hexadecimal characters has been refused
TxidTextWitness ==
    /\ kind = "Txid" /\ mode = "fuzzed"
    /\ Len(buf) = 65
    /\ \A i \in 1..Len(buf) : buf[i] \in HexDigits
    /\ res.tag = "Err"

----------------------------------------------------------------------------
(* C10 *)

Suffixes == {<<0>>, <<255>>, <<253, 0, 0>>, Fill(255, 9)}

RECURSIVE InputsConsumed(_, _, _)
\* the bytes the decodes of k inputs from offset consume together
InputsConsumed(b, offset, k) ==
    IF k = 0
    THEN 0
    ELSE LET r == TransactionInput_from_bytes(SubSeq(b, offset + 1, Len(b)), TRUE)
         IN  r.consumed + InputsConsumed(b, offset + r.consumed, k - 1)

\* C10: a successful decode consumes at most the buffer, returns the same
\* value and count whatever follows the bytes it consumed, and a composite
\* consumes the sum of what its parts consume.
PrefixDecoder ==
    (Decoded /\ res.tag = "Ok")
    => /\ res.consumed <= Len(buf)
       /\ \A oc \in BOOLEAN :
             /\ from_bytes(kind, SubSeq(buf, 1, res.consumed), oc) = res
             /\ \A s \in Suffixes :
                   /\ from_bytes(kind, buf \o s, oc) = res
                   /\ from_bytes(kind, SubSeq(buf, 1, res.consumed) \o s, oc) = res
       /\ kind = "TransactionInput"
          => res.consumed
               = 36 + Script_from_bytes(SubSeq(buf, 37, Len(buf)), TRUE).consumed + 4
       /\ kind = "BitcoinTransaction"
          => LET w == CompactSize_from_bytes(SubSeq(buf, 5, Len(buf))).consumed
             IN  res.consumed
                   = 4 + w + InputsConsumed(buf, 4 + w, Len(res.value.inputs)) + 4

\* an input followed by one more byte has been decoded
PrefixDecoderWitness ==
    /\ Decoded /\ mode = "fuzzed"
    /\ kind = "TransactionInput"
    /\ res.tag = "Ok"
    /\ res.value = x
    /\ res.consumed + 1 = Len(buf)

====
